---- MODULE Spec2Model ----
(***************************************************************************)
(* EEW-linenotify: the LINE Notify client (notification/linenotify) as a   *)
(* state machine.  One LineNotifyClient holds one region-intensity table   *)
(* (_region_intensity) and the customization settings read at construction *)
(* (_custom_set).  send_eew / update_eew are coroutines: each handler runs *)
(* atomically between its awaits (asyncio, one thread).                    *)
(***************************************************************************)
EXTENDS Integers, Sequences, FiniteSets, TLC

\* ---------------------------------------------------------------- bounds
\* Number of revisions handed to the client (one handler each).
MaxRevisions == 2

\* The clock (seconds) stops advancing once it has reached MaxClock.
MaxClock == 30

\* Number of channels the Discord client is configured with.
NumChannels == 4

\* Number of send_eew / update_eew calls made on the Discord client.
MaxCalls == 2

\* Number of earthquakes with a Map, and of draw() calls made on one Map.
NumMaps == 2

MaxDraws == 3

Handlers == 1..MaxRevisions

\* Event ids, region keys (city, region.name), intensity values and
\* S-wave arrival epochs the revisions are drawn from.
EventIds == {"A", "B"}
KeyA == <<"CityA", "RegionA">>
KeyB == <<"CityB", "RegionB">>
Keys == {KeyA, KeyB}
Arrivals == {10, 20}
Serials == {1, 2}

\* customization.threshold as found in settings.toml: a number, or a value
\* that is not a number (a string).  The intensity values of the estimates:
\* none, below the threshold, at the threshold.
ThresholdLevel == 5
Levels == {0, ThresholdLevel - 2, ThresholdLevel}
Thresholds == {[kind |-> "int", val |-> ThresholdLevel], [kind |-> "str", val |-> 0]}

\* ------------------------------------------------------- pure functions
DigitChars == <<"0", "1", "2", "3", "4", "5", "6", "7", "8", "9">>

IsDigit(c) == \E i \in 1..10 : DigitChars[i] = c

DigitValue(c) == (CHOOSE i \in 1..10 : DigitChars[i] = c) - 1

\* intensity.intensity.display: the label of an intensity value, its decimal
\* digits (value 4 is shown as "4").
RECURSIVE display(_)
display(v) ==
    IF v < 10 THEN <<DigitChars[v + 1]>>
    ELSE Append(display(v \div 10), DigitChars[(v % 10) + 1])

\* re.search(r'\d+', s) followed by int(match.group()): the number written by
\* the first run of digits of s; -1 when s holds no digit (match is None).
RECURSIVE DigitRun(_, _, _)
DigitRun(s, i, acc) ==
    IF i > Len(s) \/ ~IsDigit(s[i]) THEN acc
    ELSE DigitRun(s, i + 1, acc * 10 + DigitValue(s[i]))

RECURSIVE SearchDigits(_, _)
SearchDigits(s, i) ==
    IF i > Len(s) THEN -1
    ELSE IF IsDigit(s[i]) THEN DigitRun(s, i, 0)
    ELSE SearchDigits(s, i + 1)

\* The table is a Python dict: a sequence of entries in insertion order.
HasKey(tbl, key) == \E i \in 1..Len(tbl) : tbl[i].key = key

IndexOf(tbl, key) == CHOOSE i \in 1..Len(tbl) : tbl[i].key = key

Lookup(tbl, key) == tbl[IndexOf(tbl, key)]

\* d[key] = (label, arr): an existing key keeps its position, a new one is
\* appended.
SetItem(tbl, key, label, arr) ==
    LET e == [key |-> key, label |-> label, arr |-> arr]
    IN  IF HasKey(tbl, key) THEN [tbl EXCEPT ![IndexOf(tbl, key)] = e]
        ELSE Append(tbl, e)

\* The minimum-reportable filter: value > 0 in the default mode, value >= 0
\* in the customized mode.
Reportable(customize, level) ==
    IF customize THEN level >= 0 ELSE level > 0

\* StoreEstimate with the arrival time of an existing key replaced by the
\* reported one on every serial.
StoreEstimate_overwrite(tbl, e, serial) ==
    IF serial <= 1 \/ HasKey(tbl, e.key)
    THEN [tbl |-> SetItem(tbl, e.key, display(e.level), e.arr), err |-> "none"]
    ELSE [tbl |-> tbl, err |-> "KeyError"]

\* One estimate that passed the filter, stored by get_region_intensity.
\* Result: the table and the error raised ("none" or "KeyError").
StoreEstimate(tbl, e, serial) ==
    IF serial <= 1
    THEN [tbl |-> SetItem(tbl, e.key, display(e.level), e.arr), err |-> "none"]
    ELSE IF HasKey(tbl, e.key)
         THEN [tbl |-> SetItem(tbl, e.key, display(e.level), Lookup(tbl, e.key).arr),
               err |-> "none"]
         ELSE [tbl |-> tbl, err |-> "KeyError"]

\* get_region_intensity: the estimates are visited in order; the table is
\* mutated in place, so what was stored before a KeyError stays stored.
\* n counts the estimates visited without an error.
RECURSIVE get_region_intensity(_, _, _, _, _)
get_region_intensity(tbl, est, i, serial, customize) ==
    IF i > Len(est) THEN [tbl |-> tbl, err |-> "none", n |-> Len(est)]
    ELSE IF ~Reportable(customize, est[i].level)
         THEN get_region_intensity(tbl, est, i + 1, serial, customize)
         ELSE LET r == StoreEstimate(tbl, est[i], serial)
              IN  IF r.err # "none" THEN [tbl |-> r.tbl, err |-> r.err, n |-> i - 1]
                  ELSE get_region_intensity(r.tbl, est, i + 1, serial, customize)

\* check_intensity: "True", "False", "None" (the loop body never ran), or the
\* error raised by the comparison or by match.group().
check_intensity(tbl, threshold) ==
    IF Len(tbl) = 0 THEN "None"
    ELSE LET lv == SearchDigits(tbl[1].label, 1)
         IN  IF lv < 0 THEN "AttributeError"
             ELSE IF threshold.kind # "int" THEN "TypeError"
             ELSE IF lv >= threshold.val THEN "True"
             ELSE "False"

\* ------------------------------------------------------------------ state
VARIABLES
    _custom_set,        \* Settings.get("customization") as read by __init__
    _region_intensity,  \* the client's table
    hs,                 \* the send_eew / update_eew coroutines, one per revision
    img,                \* the _send_eew_img tasks, one per revision
    lastUpdate,         \* the handler that ran get_region_intensity last, and
                        \* the eq.city_max_intensity it was given
    _settings,          \* Settings._settings["customization"], the parsed file
    clock,              \* int(datetime.now().timestamp())
    discord,            \* one EEWMessages dispatch of the Discord client
    maps                \* the Map objects, one per earthquake

vars == <<_custom_set, _region_intensity, hs, img, lastUpdate, _settings, clock,
          discord, maps>>

\* What the LINE Notify handlers leave alone.
others == <<_settings, clock, discord, maps>>

NoRevision == [id |-> "A", serial |-> 1, final |-> FALSE]

\* The locals of _send_region_intensity while its message is posted; here
\* none is.
NoMessage == [header |-> "none", rows |-> <<>>, current_time |-> 0]

IdleHandler ==
    [pc |-> "idle", via |-> "none", rev |-> NoRevision, gate |-> "none",
     err |-> "none", calls |-> 0, sink |-> "none", msg |-> NoMessage]

NoImage == [pc |-> "none", draw |-> "none", calls |-> 0]

NoUpdate == [by |-> 0, est |-> <<>>]

Revisions == [id : EventIds, serial : Serials, final : BOOLEAN]

Entries == [key : Keys, level : Levels, arr : Arrivals]

\* eq.city_max_intensity flattened in iteration order: at most one estimate
\* per region key.
Estimates ==
    {<<>>} \cup {<<e>> : e \in Entries}
    \cup {<<p[1], p[2]>> : p \in {q \in Entries \X Entries : q[1].key # q[2].key}}

\* EEWMessages before send: no channel was called, no message is recorded.
Channels == 1..NumChannels

\* caller, id, out, calls: the DiscordNotification.send_eew / update_eew call
\* that awaits the dispatch, its eew.id, how it ended, and how many were made.
\* alerts: DiscordNotification.alerts, a set of [key, m] items.
\* got: the new messages each channel was sent, per event.
NoDispatch ==
    [pc |-> "idle", sends |-> [c \in Channels |-> "idle"], messages |-> <<>>,
     edits |-> [c \in Channels |-> "idle"],
     caller |-> "none", id |-> "A", out |-> "none", calls |-> 0, alerts |-> {},
     got |-> [e \in EventIds |-> [c \in Channels |-> 0]]]

\* Map.__init__, and its earthquake before the intensity is calculated.
\* _image is 0 for None, or the number of the draw() call that rendered it;
\* last is how the last draw() call ended.
Maps == 1..NumMaps

NoMap ==
    [_expected_intensity |-> "None", _image |-> 0, _drawn |-> FALSE,
     draws |-> 0, last |-> "none"]

Init ==
    /\ _custom_set \in [enable : BOOLEAN, threshold : Thresholds]
    /\ _region_intensity = <<>>
    /\ hs = [h \in Handlers |-> IdleHandler]
    /\ img = [h \in Handlers |-> NoImage]
    /\ lastUpdate = NoUpdate
    /\ _settings = _custom_set
    /\ clock = 0
    /\ discord = NoDispatch
    /\ maps = [m \in Maps |-> NoMap]

\* ---------------------------------------------------------------- actions
\* Handlers are numbered in the order their revisions arrive.
CanStart(h) ==
    /\ hs[h].pc = "idle"
    /\ \A g \in Handlers : g < h => hs[g].pc # "idle"

\* send_eew(eew) up to `await eq._intensity_calculated.wait()`.
send_eew(h, rev) ==
    /\ CanStart(h)
    /\ hs' = [hs EXCEPT ![h] = [IdleHandler EXCEPT !.pc = "wait_intensity",
                                                   !.via = "send_eew",
                                                   !.rev = rev]]
    /\ UNCHANGED <<_custom_set, _region_intensity, img, lastUpdate, others>>

\* update_eew(eew) up to `await eq._intensity_calculated.wait()`.
update_eew(h, rev) ==
    /\ CanStart(h)
    /\ hs' = [hs EXCEPT ![h] = [IdleHandler EXCEPT !.pc = "wait_intensity",
                                                   !.via = "update_eew",
                                                   !.rev = rev]]
    /\ UNCHANGED <<_custom_set, _region_intensity, img, lastUpdate, others>>

\* ImageTask with the image task created only when the text alert was sent.
ImageTask_gated(rev, gate) ==
    IF rev.final /\ gate = "True" THEN [NoImage EXCEPT !.pc = "scheduled"] ELSE NoImage

\* `if eew.final: asyncio.create_task(self._send_eew_img(eew))`, reached when
\* _send_region_intensity returned; gate is what check_intensity returned.
ImageTask(rev, gate) ==
    IF rev.final THEN [NoImage EXCEPT !.pc = "scheduled"] ELSE NoImage

\* arrival_time without the clamp at zero.
arrival_time_unclamped(s_arrival_time, current_time) ==
    s_arrival_time - current_time

\* arrival_time = max(s_arrival_time - current_time, 0)
arrival_time(s_arrival_time, current_time) ==
    IF s_arrival_time - current_time > 0 THEN s_arrival_time - current_time ELSE 0

\* region_intensity_message: the header of a first report or of an update,
\* and one row per record of the table, in the table's order.
region_intensity_message(tbl, current_time, serial) ==
    [header |-> IF serial <= 1 THEN "estimate" ELSE "update",
     rows |-> [i \in 1..Len(tbl) |->
                 [key |-> tbl[i].key, label |-> tbl[i].label,
                  remaining |-> arrival_time(tbl[i].arr, current_time)]],
     current_time |-> current_time]

\* Returns with the image task awaited by the handler instead of detached.
Returns_awaiting(rev) == IF rev.final THEN "await_image" ELSE "done"

\* send_eew / update_eew after _send_region_intensity returned: the image
\* task is created with asyncio.create_task and not awaited, the handler
\* returns.
Returns(rev) == "done"

\* _send_region_intensity from the intensity-calculated signal to its next
\* await: the table update, the gate, and the start of the POST.
\* est is eq.city_max_intensity, known once the signal is set.
IntensityCalculated(h, est) ==
    /\ hs[h].pc = "wait_intensity"
    /\ LET rev == hs[h].rev
           r == get_region_intensity(_region_intensity, est, 1, rev.serial,
                                     _custom_set.enable)
           g == IF r.err # "none" THEN "none"
                ELSE check_intensity(r.tbl, _custom_set.threshold)
           raised == IF r.err # "none" THEN r.err
                     ELSE IF g \in {"TypeError", "AttributeError"} THEN g
                     ELSE "none"
       IN  /\ _region_intensity' = r.tbl
           /\ lastUpdate' = [by |-> h, est |-> est]
           /\ IF raised # "none"
              THEN /\ hs' = [hs EXCEPT ![h].pc = "raised", ![h].err = raised]
                   /\ img' = img
              ELSE IF g = "True"
              THEN /\ hs' = [hs EXCEPT ![h].pc = "posting", ![h].gate = g,
                                       ![h].calls = 1,
                                       ![h].msg = region_intensity_message(
                                                      r.tbl, clock, rev.serial)]
                   /\ img' = img
              ELSE /\ hs' = [hs EXCEPT ![h].pc = Returns(rev), ![h].gate = g]
                   /\ img' = [img EXCEPT ![h] = ImageTask(rev, g)]
    /\ UNCHANGED <<_custom_set, others>>

\* _post_line_api with a failed delivery raised to the caller.
_post_line_api_uncaught(ok) == IF ok THEN "none" ELSE "ClientResponseError"

\* _post_line_api(session, ...) once the POST has answered: a response that
\* is OK is logged; a network error or a response that is not OK raises
\* inside the try and is caught and logged there.  Result: the error that
\* leaves the call ("none": the call returns).
_post_line_api(ok) == "none"

\* The POST of the region-intensity text answers; _send_region_intensity and
\* then send_eew / update_eew run to their end.
PrimaryAnswered(h, ok) ==
    /\ hs[h].pc = "posting"
    /\ LET raised == _post_line_api(ok)
           sink == IF ok THEN "ok" ELSE "failed"
       IN  IF raised = "none"
           THEN /\ hs' = [hs EXCEPT ![h].pc = Returns(hs[h].rev), ![h].sink = sink,
                                    ![h].msg = NoMessage]
                /\ img' = [img EXCEPT ![h] = ImageTask(hs[h].rev, hs[h].gate)]
           ELSE /\ hs' = [hs EXCEPT ![h].pc = "raised", ![h].sink = sink,
                                    ![h].err = raised, ![h].msg = NoMessage]
                /\ img' = img
    /\ UNCHANGED <<_custom_set, _region_intensity, lastUpdate, others>>

PostOk(h) == PrimaryAnswered(h, TRUE)

PostFail(h) == PrimaryAnswered(h, FALSE)

\* _send_eew_img starts running: get_eew_message, then `await eq._draw_task`.
ImageStart(h) ==
    /\ img[h].pc = "scheduled"
    /\ img' = [img EXCEPT ![h].pc = "await_draw"]
    /\ UNCHANGED <<_custom_set, _region_intensity, hs, lastUpdate, others>>

\* Outcomes of awaiting eq._draw_task: Map.draw ran and set _drawn, Map.draw
\* caught a failure of its own and left _drawn false, Map.draw raised its
\* RuntimeError, or the task was cancelled.
DrawOutcomes == {"drawn", "not_drawn", "RuntimeError", "cancelled"}

\* AfterDraw with `image` bound to None beforehand: the caption is posted
\* without an image when no map was drawn.
AfterDraw_unguarded(outcome, has_save) ==
    IF outcome = "not_drawn" \/ (outcome = "drawn" /\ has_save) THEN "posting"
    ELSE "logged"

\* _send_eew_img after `await eq._draw_task`, up to the POST or to one of its
\* except clauses.  `image` is bound only when eq.map._drawn; the use of the
\* unbound name raises UnboundLocalError before the POST.  has_save: whether
\* eq.map.save() returns the image bytes (the Map class of earthquake/map.py
\* defines no save, the call then raises AttributeError).
AfterDraw(outcome, has_save) ==
    IF outcome = "drawn" /\ has_save THEN "posting" ELSE "logged"

DrawTaskDone(h, outcome, has_save) ==
    /\ img[h].pc = "await_draw"
    /\ LET next == AfterDraw(outcome, has_save)
       IN  img' = [img EXCEPT ![h].pc = next, ![h].draw = outcome,
                              ![h].calls = IF next = "posting" THEN 1 ELSE 0]
    /\ UNCHANGED <<_custom_set, _region_intensity, hs, lastUpdate, others>>

\* The POST of the image answers; a failure is caught in _post_line_api.
ImageAnswered(h, ok) ==
    /\ img[h].pc = "posting"
    /\ LET raised == _post_line_api(ok)
       IN  img' = [img EXCEPT ![h].pc = IF ok /\ raised = "none" THEN "sent"
                                        ELSE "logged"]
    /\ UNCHANGED <<_custom_set, _region_intensity, hs, lastUpdate, others>>

\* The coroutine of a revision that was handled is gone.
Forget(h) ==
    /\ hs[h].pc \in {"done", "raised"}
    /\ img[h].pc = "none"
    /\ hs' = [hs EXCEPT ![h] = IdleHandler]
    /\ lastUpdate' = NoUpdate
    /\ UNCHANGED <<_custom_set, _region_intensity, img, others>>

\* Time passes: the next reading of datetime.now() is later by the smallest
\* arrival time there is.
TickStep == CHOOSE a \in Arrivals : \A b \in Arrivals : a <= b

Tick ==
    /\ clock < MaxClock
    /\ clock' = clock + TickStep
    /\ UNCHANGED <<_custom_set, _region_intensity, hs, img, lastUpdate, _settings,
                   discord, maps>>

\* Settings.reload(): the file is parsed again and Settings._settings is
\* bound to the new document; here with a customization table that changed.
\* The client's _custom_set is the table Settings.get returned in __init__.
Reload ==
    /\ _settings' \in [enable : BOOLEAN, threshold : Thresholds]
    /\ _settings' # _settings
    /\ UNCHANGED <<_custom_set, _region_intensity, hs, img, lastUpdate, clock,
                   discord, maps>>

\* --------------------------------------------------------------- the map
\* The intensity of earthquake m has been calculated:
\* _eq._expected_intensity is no longer None.
ExpectedIntensityCalculated(m) ==
    /\ maps[m]._expected_intensity = "None"
    /\ maps' = [maps EXCEPT ![m]._expected_intensity = "calculated"]
    /\ UNCHANGED <<_custom_set, _region_intensity, hs, img, lastUpdate, _settings,
                   clock, discord>>

\* draw with _drawn set at the start of the try block.
draw_flag_first(map, rendered) ==
    LET call == [map EXCEPT !.draws = @ + 1]
    IN  IF map._expected_intensity = "None"
        THEN [call EXCEPT !.last = "RuntimeError"]
        ELSE IF rendered
        THEN [call EXCEPT !._image = call.draws, !._drawn = TRUE, !.last = "drawn"]
        ELSE [call EXCEPT !._drawn = TRUE, !.last = "printed"]

\* Map.draw(): RuntimeError before the try when the intensity is not
\* calculated; in the try the map is built and rendered, then _image and
\* _drawn are assigned, in that order and with nothing between them; an
\* exception of the building or rendering (rendered false) is printed.
draw(map, rendered) ==
    LET call == [map EXCEPT !.draws = @ + 1]
    IN  IF map._expected_intensity = "None"
        THEN [call EXCEPT !.last = "RuntimeError"]
        ELSE IF rendered
        THEN [call EXCEPT !._image = call.draws, !._drawn = TRUE, !.last = "drawn"]
        ELSE [call EXCEPT !.last = "printed"]

Draw(m, rendered) ==
    /\ maps[m].draws < MaxDraws
    /\ maps' = [maps EXCEPT ![m] = draw(maps[m], rendered)]
    /\ UNCHANGED <<_custom_set, _region_intensity, hs, img, lastUpdate, _settings,
                   clock, discord>>

\* ------------------------------------------------------- Discord messages
\* The channels of notification_channels whose send returned a message, in
\* the order of the list: list(filter(None, results of gather)).
RECURSIVE Successful(_, _)
Successful(sends, c) ==
    IF c > NumChannels THEN <<>>
    ELSE IF sends[c] = "message" THEN <<c>> \o Successful(sends, c + 1)
    ELSE Successful(sends, c + 1)

InMessages(c) == \E i \in 1..Len(discord.messages) : discord.messages[i] = c

\* EEWMessages.send up to `await asyncio.gather(...)`: one
\* _send_singal_message per configured channel, all started.
DiscordSend ==
    /\ discord.pc = "idle"
    /\ discord' = [discord EXCEPT !.pc = "gather",
                                  !.sends = [c \in Channels |-> "inflight"]]
    /\ UNCHANGED <<_custom_set, _region_intensity, hs, img, lastUpdate, _settings,
                   clock, maps>>

\* _send_singal_message with a failed channel.send raised to gather.
_send_singal_message_uncaught(ok) == IF ok THEN "message" ELSE "raised"

\* _send_singal_message once channel.send has answered: the message, or None
\* for any exception.
_send_singal_message(ok) == IF ok THEN "message" ELSE "None"

\* dict.get(key): the item stored under the key, or None.
alerts_get(alerts, key) ==
    IF \E a \in alerts : a.key = key
    THEN [found |-> TRUE, m |-> (CHOOSE a \in alerts : a.key = key).m]
    ELSE [found |-> FALSE, m |-> <<>>]

\* `self.alerts[eew.id, m]`: a subscription with the tuple (eew.id, m) as
\* the key.  Nothing is assigned; the error it raises, or "none".
alerts_getitem(alerts, id, m) ==
    IF alerts_get(alerts, <<id, m>>).found THEN "none" ELSE "KeyError"

\* What follows `await EEWMessages.send(...)` in its caller, d being the
\* dispatch with its messages recorded: a direct caller has its EEWMessages;
\* DiscordNotification.send_eew subscripts the registry and returns m, and
\* update_eew, which awaited send_eew, goes on to m.update_eew only then.
AfterSend(d) ==
    IF d.caller = "none" THEN d
    ELSE LET raised == alerts_getitem(d.alerts, d.id, d.messages)
         IN  IF raised # "none" THEN [d EXCEPT !.pc = "ended", !.out = raised]
             ELSE IF d.caller = "send_eew"
             THEN [d EXCEPT !.pc = "ended", !.out = "returned"]
             ELSE [d EXCEPT
                     !.pc = IF Len(d.messages) = 0 THEN "edited" ELSE "editing",
                     !.out = IF Len(d.messages) = 0 THEN "returned" ELSE @,
                     !.edits = [c \in Channels |->
                                  IF d.sends[c] = "message" THEN "inflight"
                                  ELSE "idle"]]

\* channel.send of channel c answers.  gather returns when the last channel
\* has answered and send records the messages; an exception of one of its
\* awaitables leaves gather, and send, at once, the other sends go on.
ChannelAnswered(c, ok) ==
    /\ discord.pc \in {"gather", "raised"}
    /\ discord.sends[c] = "inflight"
    /\ LET r == _send_singal_message(ok)
           sends == [discord.sends EXCEPT ![c] = r]
           got == IF r = "message"
                  THEN [discord.got EXCEPT ![discord.id][c] = @ + 1]
                  ELSE discord.got
           answered == [discord EXCEPT !.sends = sends, !.got = got]
       IN  discord' =
             IF discord.pc = "raised" THEN answered
             ELSE IF r = "raised"
             THEN [answered EXCEPT !.pc = "raised"]
             ELSE IF \A d \in Channels : sends[d] # "inflight"
             THEN AfterSend([answered EXCEPT !.pc = "sent",
                                             !.messages = Successful(sends, 1)])
             ELSE answered
    /\ UNCHANGED <<_custom_set, _region_intensity, hs, img, lastUpdate, _settings,
                   clock, maps>>

\* DiscordNotification.send_eew(eew) / update_eew(eew) up to the first await.
\* update_eew goes to m.update_eew(eew) when alerts.get(eew.id) finds m, and
\* calls send_eew otherwise.  send_eew calls EEWMessages.send with the class
\* EEW in the place of eew: info_embed reads the attributes of the class, not
\* of the alert; embed_ok is whether that builds an embed (AttributeError
\* when it does not).
NotifyStart(via, id, embed_ok) ==
    /\ discord.calls < MaxCalls
    /\ discord.pc = "idle" \/ discord.out # "none"
    /\ LET found == alerts_get(discord.alerts, <<id>>)
           call == [discord EXCEPT !.caller = via, !.id = id, !.out = "none",
                                   !.calls = @ + 1,
                                   !.sends = [c \in Channels |-> "idle"],
                                   !.edits = [c \in Channels |-> "idle"],
                                   !.messages = <<>>]
       IN  discord' =
             IF via = "update_eew" /\ found.found
             THEN [call EXCEPT
                     !.messages = found.m,
                     !.pc = IF Len(found.m) = 0 THEN "edited" ELSE "editing",
                     !.out = IF Len(found.m) = 0 THEN "returned" ELSE @,
                     !.edits = [c \in Channels |->
                                  IF \E i \in 1..Len(found.m) : found.m[i] = c
                                  THEN "inflight" ELSE "idle"]]
             ELSE IF ~embed_ok
             THEN [call EXCEPT !.pc = "ended", !.out = "AttributeError"]
             ELSE [call EXCEPT !.pc = "gather",
                               !.sends = [c \in Channels |-> "inflight"]]
    /\ UNCHANGED <<_custom_set, _region_intensity, hs, img, lastUpdate, _settings,
                   clock, maps>>

\* EEWMessages.update_eew, edit up to `await asyncio.gather(...)`: one
\* _edit_singal_message per recorded message.
DiscordEdit ==
    /\ discord.pc \in {"sent", "edited"}
    /\ discord' = [discord EXCEPT
                     !.pc = IF Len(discord.messages) = 0 THEN "edited" ELSE "editing",
                     !.edits = [c \in Channels |->
                                  IF InMessages(c) THEN "inflight" ELSE "idle"]]
    /\ UNCHANGED <<_custom_set, _region_intensity, hs, img, lastUpdate, _settings,
                   clock, maps>>

\* _edit_singal_message once message.edit has answered: the message, or None
\* for any exception.
_edit_singal_message(ok) == IF ok THEN "message" ELSE "None"

\* message.edit of the message of channel c answers; edit returns when the
\* last one has.
EditAnswered(c, ok) ==
    /\ discord.pc = "editing"
    /\ discord.edits[c] = "inflight"
    /\ LET edits == [discord.edits EXCEPT ![c] = _edit_singal_message(ok)]
       IN  discord' =
             [discord EXCEPT
                !.pc = IF \A d \in Channels : edits[d] # "inflight"
                       THEN "edited" ELSE "editing",
                !.out = IF /\ \A d \in Channels : edits[d] # "inflight"
                           /\ discord.caller # "none"
                        THEN "returned" ELSE @,
                !.edits = edits]
    /\ UNCHANGED <<_custom_set, _region_intensity, hs, img, lastUpdate, _settings,
                   clock, maps>>

\* ---------------------------------------------------------- specifications
\* Spec: MaxRevisions revisions of up to two events handled concurrently,
\* each with at most one estimate (for KeyA).
DispatchEstimates ==
    {est \in Estimates :
        /\ Len(est) <= 1
        /\ \A i \in 1..Len(est) : est[i].key = KeyA /\ est[i].arr = 10}

Next ==
    \/ \E h \in Handlers, rev \in Revisions : send_eew(h, rev)
    \/ \E h \in Handlers, rev \in Revisions : update_eew(h, rev)
    \/ \E h \in Handlers, est \in DispatchEstimates : IntensityCalculated(h, est)
    \/ \E h \in Handlers : PostOk(h)
    \/ \E h \in Handlers : PostFail(h)
    \/ \E h \in Handlers : ImageStart(h)
    \/ \E h \in Handlers, o \in DrawOutcomes, s \in BOOLEAN : DrawTaskDone(h, o, s)
    \/ \E h \in Handlers, ok \in BOOLEAN : ImageAnswered(h, ok)

Spec == Init /\ [][Next]_vars

\* TableSpec: the revisions of one event handled one after the other, any
\* number of them, none final, with every list of estimates.
TableRevisions == {rev \in Revisions : rev.id = "A" /\ ~rev.final}

TableNext ==
    \/ \E rev \in TableRevisions : send_eew(1, rev)
    \/ \E rev \in TableRevisions : update_eew(1, rev)
    \/ \E est \in Estimates : IntensityCalculated(1, est)
    \/ PostOk(1)
    \/ PostFail(1)
    \/ Forget(1)

TableSpec == Init /\ [][TableNext]_vars

\* ReloadSpec: TableSpec with reloads of the settings file at any time.
ReloadNext ==
    \/ TableNext
    \/ Reload

ReloadSpec == Init /\ [][ReloadNext]_vars

\* RenderSpec: TableSpec with time passing between and during the revisions.
RenderNext ==
    \/ TableNext
    \/ Tick

RenderSpec == Init /\ [][RenderNext]_vars

\* LiveSpec: one revision handled to its end, image task included.  The
\* signals are set and every POST answers: a step that stays possible is
\* taken.
LiveNext ==
    \/ \E rev \in Revisions : send_eew(1, rev)
    \/ \E rev \in Revisions : update_eew(1, rev)
    \/ \E est \in DispatchEstimates : IntensityCalculated(1, est)
    \/ PostOk(1)
    \/ PostFail(1)
    \/ ImageStart(1)
    \/ \E o \in DrawOutcomes, s \in BOOLEAN : DrawTaskDone(1, o, s)
    \/ \E ok \in BOOLEAN : ImageAnswered(1, ok)

LiveSpec ==
    /\ Init
    /\ [][LiveNext]_vars
    /\ WF_vars(\E est \in DispatchEstimates : IntensityCalculated(1, est))
    /\ WF_vars(PostOk(1) \/ PostFail(1))
    /\ WF_vars(ImageStart(1))
    /\ WF_vars(\E o \in DrawOutcomes, s \in BOOLEAN : DrawTaskDone(1, o, s))
    /\ WF_vars(\E ok \in BOOLEAN : ImageAnswered(1, ok))

\* DiscordSpec: one EEWMessages, sent to NumChannels channels and edited.
DiscordNext ==
    \/ DiscordSend
    \/ \E c \in Channels, ok \in BOOLEAN : ChannelAnswered(c, ok)
    \/ DiscordEdit
    \/ \E c \in Channels, ok \in BOOLEAN : EditAnswered(c, ok)

DiscordSpec == Init /\ [][DiscordNext]_vars

\* NotifySpec: MaxCalls calls of send_eew / update_eew on the Discord client,
\* one after the other, for up to two events.
NotifyNext ==
    \/ \E id \in EventIds, embed_ok \in BOOLEAN : NotifyStart("send_eew", id, embed_ok)
    \/ \E id \in EventIds, embed_ok \in BOOLEAN : NotifyStart("update_eew", id, embed_ok)
    \/ \E c \in Channels, ok \in BOOLEAN : ChannelAnswered(c, ok)

NotifySpec == Init /\ [][NotifyNext]_vars

\* MapSpec: NumMaps maps, each drawn up to MaxDraws times, before and after
\* the intensity of its earthquake is calculated.
MapNext ==
    \/ \E m \in Maps : ExpectedIntensityCalculated(m)
    \/ \E m \in Maps, rendered \in BOOLEAN : Draw(m, rendered)

MapSpec == Init /\ [][MapNext]_vars

\* ------------------------------------------------------------ properties
Table == _region_intensity

\* Handler h ran its table update in this step.
Updates(h) == hs[h].pc = "wait_intensity" /\ hs'[h].pc # "wait_intensity"

\* The intensity level of a stored record, as check_intensity reads it.
LevelOf(record) == SearchDigits(record.label, 1)

\* C1: at most one primary dispatch (the POST of the region-intensity text) is
\* in flight per event: no state has two handlers of the same event both
\* between the start and the completion of their POST.
C1_OnePrimaryInFlight ==
    \A g, h \in Handlers :
        (g # h /\ hs[g].rev.id = hs[h].rev.id)
            => ~(hs[g].pc = "posting" /\ hs[h].pc = "posting")

\* C2 as stated: once a key is in the table no step changes its stored
\* arrival time, whatever the serial of the revision.
C2_ArrivalNeverChanges ==
    [][\A k \in Keys :
          HasKey(Table, k)
              => /\ HasKey(Table', k)
                 /\ Lookup(Table', k).arr = Lookup(Table, k).arr]_vars

\* C2 amended: once a key is in the table it stays, and its stored arrival
\* time changes only in the table update of a revision with serial <= 1 that
\* reports the key, to the arrival time that revision reports; a revision
\* with serial > 1 replaces the label only.
C2_ArrivalKeptByLaterSerials ==
    [][\A k \in Keys :
          HasKey(Table, k)
              => /\ HasKey(Table', k)
                 /\ Lookup(Table', k).arr # Lookup(Table, k).arr
                      => \E h \in Handlers :
                            /\ Updates(h)
                            /\ hs[h].rev.serial <= 1
                            /\ \E i \in 1..Len(lastUpdate'.est) :
                                  /\ lastUpdate'.est[i].key = k
                                  /\ lastUpdate'.est[i].arr = Lookup(Table', k).arr]_vars

\* A revision with serial > 1 reported a key with another arrival time than
\* the stored one, its label was stored and the arrival time was kept.
C2_Witness ==
    \E h \in Handlers :
        /\ lastUpdate.by = h
        /\ hs[h].rev.serial > 1
        /\ hs[h].pc \in {"posting", "done"}
        /\ \E i \in 1..Len(lastUpdate.est) :
              LET e == lastUpdate.est[i]
              IN  /\ Reportable(_custom_set.enable, e.level)
                  /\ Lookup(Table, e.key).label = display(e.level)
                  /\ Lookup(Table, e.key).arr # e.arr

\* C3: after the table update of a revision with serial <= 1 every region it
\* reports with a positive intensity is stored with the reported label and
\* arrival time; after that of a revision with serial > 1 every region it
\* reports with a positive intensity that was in the table is stored with the
\* new label and the arrival time it had.
C3_ReportedThenKept ==
    [][\A h \in Handlers :
          Updates(h) =>
              \A i \in 1..Len(lastUpdate'.est) :
                  LET e == lastUpdate'.est[i]
                  IN  e.level > 0 =>
                        IF hs[h].rev.serial <= 1
                        THEN /\ HasKey(Table', e.key)
                             /\ Lookup(Table', e.key).label = display(e.level)
                             /\ Lookup(Table', e.key).arr = e.arr
                        ELSE HasKey(Table, e.key) =>
                               /\ Lookup(Table', e.key).label = display(e.level)
                               /\ Lookup(Table', e.key).arr = Lookup(Table, e.key).arr]_vars

\* C4: a region whose key first appears on a revision with serial > 1 is
\* inserted with that revision's label and its own reported arrival time, and
\* the table update of such a revision ends without an error.
C4_NewKeyOnLaterSerial ==
    [][\A h \in Handlers :
          (Updates(h) /\ hs[h].rev.serial > 1) =>
              \A i \in 1..Len(lastUpdate'.est) :
                  LET e == lastUpdate'.est[i]
                  IN  (Reportable(_custom_set.enable, e.level) /\ ~HasKey(Table, e.key))
                        => /\ hs'[h].err # "KeyError"
                           /\ HasKey(Table', e.key)
                           /\ Lookup(Table', e.key).label = display(e.level)
                           /\ Lookup(Table', e.key).arr = e.arr]_vars

\* C5: with customization enabled and a numeric threshold T the gate returns
\* true exactly when some record of the table has an intensity level >= T,
\* in whatever order the records are.
C5_GateIsAnyAtLeast ==
    \A h \in Handlers :
        (/\ _custom_set.enable
         /\ _custom_set.threshold.kind = "int"
         /\ lastUpdate.by = h
         /\ hs[h].gate # "none")
            => (hs[h].gate = "True"
                  <=> \E i \in 1..Len(Table) :
                         LevelOf(Table[i]) >= _custom_set.threshold.val)

\* C6: with customization disabled the gate returns true for every revision,
\* whatever the table and the threshold, and the revision's text is sent.
C6_DisabledGateAlwaysTrue ==
    \A h \in Handlers :
        (/\ ~_custom_set.enable
         /\ lastUpdate.by = h
         /\ Len(Table) > 0
         /\ hs[h].err # "KeyError")
            => (hs[h].gate = "True" /\ hs[h].calls = 1)

\* C7: handling a final revision, by send_eew or by update_eew, creates its
\* image task, and an image task exists only once the primary dispatch of its
\* revision has settled.
C7_FinalGetsImageAfterPrimary ==
    \A h \in Handlers :
        /\ (hs[h].rev.final /\ hs[h].pc \in {"done", "raised"}) => img[h].pc # "none"
        /\ img[h].pc # "none" => hs[h].pc = "done"

\* C8: a final revision whose gate evaluated, to true or to false, has its
\* image task created once its handler has returned.
C8_ImageWhateverTheGate ==
    \A h \in Handlers :
        (/\ hs[h].rev.final
         /\ hs[h].pc = "done"
         /\ hs[h].gate \in {"True", "False", "None"})
            => img[h].pc # "none"

\* A final revision that sent no text alert has its image task.
C8_Witness ==
    \E h \in Handlers :
        /\ hs[h].rev.final
        /\ hs[h].pc = "done"
        /\ hs[h].gate = "False"
        /\ hs[h].calls = 0
        /\ img[h].pc # "none"

\* C9: when the draw task ends with no map drawn, the image task makes no
\* sink call and ends in its logging except clause, and that step leaves the
\* handlers and the table as they were.
C9_NoMapNoImageCall ==
    [][\A h \in Handlers :
          img'[h].draw = "not_drawn"
              => /\ img'[h].pc = "logged"
                 /\ img'[h].calls = 0
                 /\ img[h].pc = "await_draw"
                      => (hs' = hs /\ Table' = Table)]_vars

\* An image task ended without a map after its revision's text was sent.
C9_Witness ==
    \E h \in Handlers :
        /\ img[h].draw = "not_drawn"
        /\ img[h].pc = "logged"
        /\ hs[h].sink = "ok"
        /\ Len(Table) > 0

\* C10: a failed delivery of the text leaves the handler returned, not
\* raised, after one sink call; the failing step leaves the table as it was
\* and a final revision has its image task created.
C10_FailedDeliveryIsCaught ==
    [][\A h \in Handlers :
          hs'[h].sink = "failed"
              => /\ hs'[h].pc = "done"
                 /\ hs'[h].err = "none"
                 /\ hs'[h].calls = 1
                 /\ hs'[h].rev.final => img'[h].pc # "none"
                 /\ hs[h].pc = "posting" => Table' = Table]_vars

\* The delivery of a final revision's text failed and its image task exists.
C10_Witness ==
    \E h \in Handlers :
        /\ hs[h].sink = "failed"
        /\ hs[h].rev.final
        /\ hs[h].pc = "done"
        /\ img[h].pc # "none"

\* C11: the sends of one dispatch fan out to every configured channel and
\* are all joined before the dispatch completes; whichever channels fail,
\* every other channel is attempted and can succeed, the dispatch itself does
\* not fail, and the recorded messages are exactly those of the successful
\* sends, in the order of the channels.  Edits of the recorded messages are
\* joined the same way and leave the recorded messages alone.
C11_FanOutJoinedIndependent ==
    /\ discord.pc # "raised"
    /\ discord.pc # "idle" => \A c \in Channels : discord.sends[c] # "idle"
    /\ discord.pc = "gather" =>
          /\ \E c \in Channels : discord.sends[c] = "inflight"
          /\ \A c \in Channels :
                discord.sends[c] = "inflight" => ENABLED ChannelAnswered(c, TRUE)
    /\ discord.pc \in {"sent", "editing", "edited"} =>
          /\ \A c \in Channels : discord.sends[c] \in {"message", "None"}
          /\ discord.messages = Successful(discord.sends, 1)
          /\ \A c \in Channels : InMessages(c) <=> discord.sends[c] = "message"
    /\ discord.pc = "edited" =>
          \A c \in Channels :
              IF InMessages(c) THEN discord.edits[c] \in {"message", "None"}
              ELSE discord.edits[c] = "idle"

\* A dispatch completed with the first channel failed and a later one sent.
C11_Witness ==
    /\ discord.pc = "sent"
    /\ discord.sends[1] = "None"
    /\ discord.sends[2] = "message"
    /\ discord.sends[NumChannels] = "None"
    /\ Len(discord.messages) = NumChannels - 2

\* C12: no failure while a revision is handled (table update, gate
\* evaluation, formatting or send) propagates out of its handler: no handler
\* ever ends by raising.
C12_NothingPropagates ==
    \A h \in Handlers : hs[h].pc # "raised" /\ hs[h].err = "none"

\* C13: with a non-numeric threshold in the configuration, a gate evaluation
\* (over a table that has a record to compare) ends in a ConfigurationError
\* outcome and no primary send is made for the revision.
C13_NonNumericThresholdConfigurationError ==
    [][\A h \in Handlers :
          (/\ Updates(h)
           /\ _custom_set.threshold.kind = "str"
           /\ hs'[h].err # "KeyError"
           /\ Len(Table') > 0)
          => (hs'[h].err = "ConfigurationError" /\ hs'[h].calls = 0)]_vars

\* C14: revisions of one event are applied in arrival order: a handler
\* started later never has its table update behind it while the handler of an
\* earlier revision of the same event still waits for its own.
C14_AppliedInArrivalOrder ==
    \A g, h \in Handlers :
        (/\ g < h
         /\ hs[g].rev.id = hs[h].rev.id
         /\ hs[h].pc \notin {"idle", "wait_intensity"})
        => hs[g].pc \notin {"idle", "wait_intensity"}

\* C15: the table is cumulative: no step removes a key from it, and every key
\* a revision reports with a reportable intensity is in the table once that
\* revision's table update has run, whatever the serial.
C15_CumulativeKeySet ==
    [][/\ \A k \in Keys : HasKey(Table, k) => HasKey(Table', k)
       /\ \A h \in Handlers :
             Updates(h) =>
                 \A i \in 1..Len(lastUpdate'.est) :
                     Reportable(_custom_set.enable, lastUpdate'.est[i].level)
                         => HasKey(Table', lastUpdate'.est[i].key)]_vars

\* C16: region tables are per event: when the only revision of an event has
\* had its table update, every record of the table it is gated and rendered
\* with was reported by that revision (key, label and arrival time), whatever
\* revisions of another event were handled.
C16_TablePerEvent ==
    \A h \in Handlers :
        (/\ lastUpdate.by = h
         /\ hs[h].err = "none"
         /\ \A g \in Handlers \ {h} :
               hs[g].pc # "idle" => hs[g].rev.id # hs[h].rev.id)
        => \A i \in 1..Len(Table) :
               \E j \in 1..Len(lastUpdate.est) :
                   /\ lastUpdate.est[j].key = Table[i].key
                   /\ display(lastUpdate.est[j].level) = Table[i].label
                   /\ lastUpdate.est[j].arr = Table[i].arr

\* C17: every gate evaluation that starts after a configuration reload uses
\* the values of the file as last loaded: the table update goes by its
\* customization.enable and the gate compares with its
\* customization.threshold.
C17_GateUsesReloadedValues ==
    [][\A h \in Handlers :
          Updates(h) =>
              LET r == get_region_intensity(Table, lastUpdate'.est, 1,
                                            hs[h].rev.serial, _settings.enable)
                  g == check_intensity(r.tbl, _settings.threshold)
              IN  /\ Table' = r.tbl
                  /\ r.err = "none" =>
                        IF g \in {"TypeError", "AttributeError"}
                        THEN hs'[h].err = g
                        ELSE hs'[h].err = "none" /\ hs'[h].gate = g]_vars

\* C18: the image dispatch never blocks the primary alert path: while an
\* image task is scheduled or waits for the map to be drawn, the handler that
\* created it has returned, and every other handler can take its next step:
\* start on a revision, run its table update and gate, have its POST answered.
C18_ImageNeverBlocksPrimary ==
    \A g \in Handlers :
        img[g].pc \in {"scheduled", "await_draw"} =>
            /\ hs[g].pc = "done"
            /\ \A h \in Handlers \ {g} :
                  /\ CanStart(h) => ENABLED send_eew(h, NoRevision)
                  /\ hs[h].pc = "wait_intensity"
                        => ENABLED IntensityCalculated(h, <<>>)
                  /\ hs[h].pc = "posting" => ENABLED PostOk(h)

\* The image task of one revision waits for the map while the POST of the
\* text of another revision, started later, is in flight.
C18_Witness ==
    \E g, h \in Handlers :
        /\ g < h
        /\ hs[g].rev.final
        /\ img[g].pc = "await_draw"
        /\ hs[h].pc = "posting"

\* C19: the message being posted has one row per record of the table, and
\* the remaining seconds of each row are max(arrival - now, 0) for the clock
\* reading the message was rendered at: never negative.
C19_RemainingIsClampedAtZero ==
    \A h \in Handlers :
        hs[h].pc = "posting" =>
            LET m == hs[h].msg
            IN  /\ Len(m.rows) = Len(Table)
                /\ \A i \in 1..Len(m.rows) :
                      LET left == Table[i].arr - m.current_time
                      IN  /\ m.rows[i].key = Table[i].key
                          /\ m.rows[i].remaining >= 0
                          /\ left >= 0 => m.rows[i].remaining = left
                          /\ left < 0 => m.rows[i].remaining = 0

\* A message rendered 10 seconds after the arrival time of one of its regions
\* shows 0 seconds for it.
C19_Witness ==
    \E h \in Handlers :
        /\ hs[h].pc = "posting"
        /\ \E i \in 1..Len(hs[h].msg.rows) :
              /\ Table[i].arr = hs[h].msg.current_time - 10
              /\ hs[h].msg.rows[i].remaining = 0

\* C20: once the handling of a final revision has started, its image
\* dispatch eventually reaches a terminal state (image sent, or skipped and
\* logged); the handling of a revision that is not final never starts an
\* image dispatch.
C20_FinalReachesTerminalImage ==
    /\ \A h \in Handlers :
          (hs[h].pc # "idle" /\ hs[h].rev.final) ~> (img[h].pc \in {"sent", "logged"})
    /\ [](\A h \in Handlers : ~hs[h].rev.final => img[h].pc = "none")

\* The part of C15 that holds: the key set never shrinks.
KeySetNeverShrinks ==
    [][\A k \in Keys : HasKey(Table, k) => HasKey(Table', k)]_vars

\* C21: in the default mode an estimate with level 0 is neither inserted nor
\* updated by a table update; in the customized mode every estimate with a
\* level >= 0 is in the table, with its label, after the table update.
C21_FilterByMode ==
    [][\A h \in Handlers :
          Updates(h) =>
              \A i \in 1..Len(lastUpdate'.est) :
                  LET e == lastUpdate'.est[i]
                  IN  IF _custom_set.enable
                      THEN e.level >= 0 =>
                             /\ HasKey(Table', e.key)
                             /\ Lookup(Table', e.key).label = display(e.level)
                      ELSE e.level = 0 =>
                             /\ HasKey(Table', e.key) <=> HasKey(Table, e.key)
                             /\ HasKey(Table, e.key) =>
                                   Lookup(Table', e.key) = Lookup(Table, e.key)]_vars

\* The part of C21 that holds: the default mode never stores a level 0, and
\* the customized mode stores every level >= 0 of a table update that ended
\* without an error.
FilterByModeWithoutError ==
    [][\A h \in Handlers :
          Updates(h) =>
              \A i \in 1..Len(lastUpdate'.est) :
                  LET e == lastUpdate'.est[i]
                  IN  IF _custom_set.enable
                      THEN (e.level >= 0 /\ hs'[h].err # "KeyError") =>
                             /\ HasKey(Table', e.key)
                             /\ Lookup(Table', e.key).label = display(e.level)
                      ELSE e.level = 0 =>
                             /\ HasKey(Table', e.key) <=> HasKey(Table, e.key)
                             /\ HasKey(Table, e.key) =>
                                   Lookup(Table', e.key) = Lookup(Table, e.key)]_vars

\* C22: a send_eew / update_eew call of the Discord client that has ended has
\* returned, and the registry then holds the messages of the event under
\* eew.id; a channel is sent at most one new message per event, later updates
\* edit the registered messages.
C22_RegisteredAndSentOnce ==
    /\ discord.out # "none" =>
          /\ discord.out = "returned"
          /\ alerts_get(discord.alerts, <<discord.id>>).found
    /\ \A e \in EventIds, c \in Channels : discord.got[e][c] <= 1

\* Every call that got as far as sending ended with the KeyError of the
\* registry subscription, and nothing was ever registered.
RegistryStaysEmpty ==
    /\ discord.alerts = {}
    /\ discord.out \in {"none", "AttributeError", "KeyError"}

\* C23: in every state of a Map, _drawn implies that _image is set; a draw()
\* before the intensity is calculated raises RuntimeError and leaves _drawn
\* false and _image unset; a draw() whose drawing fails raises nothing, sets
\* neither _drawn nor _image, and so leaves _drawn false on a map that was
\* not drawn.
C23_DrawnImpliesImage ==
    /\ [](\A m \in Maps : maps[m]._drawn => maps[m]._image # 0)
    /\ [][\A m \in Maps :
            maps'[m].draws # maps[m].draws =>
                /\ maps[m]._expected_intensity = "None" =>
                      /\ maps'[m].last = "RuntimeError"
                      /\ ~maps'[m]._drawn
                      /\ maps'[m]._image = 0
                /\ maps[m]._expected_intensity # "None" =>
                      maps'[m].last \in {"drawn", "printed"}
                /\ maps'[m].last = "printed" =>
                      /\ maps'[m]._drawn = maps[m]._drawn
                      /\ maps'[m]._image = maps[m]._image
                      /\ ~maps[m]._drawn => ~maps'[m]._drawn
                /\ maps'[m].last = "drawn" =>
                      maps'[m]._drawn /\ maps'[m]._image # 0]_vars

\* One map, on which draw() was called more than once, had its last drawing
\* fail and is not drawn; another map is drawn.
C23_Witness ==
    \E m, n \in Maps :
        /\ maps[m].draws >= 2
        /\ maps[m].last = "printed"
        /\ ~maps[m]._drawn
        /\ maps[m]._image = 0
        /\ maps[n]._drawn
        /\ maps[n]._image # 0

====
